---- MODULE Spec2Model ----
(***************************************************************************)
(* A model of cbindgen's annotation system, src/bindgen/ir/annotation.rs.  *)
(*                                                                         *)
(* Text is a sequence of one-character strings, so that trimming,          *)
(* splitting and prefix tests are computed character by character as the   *)
(* Rust code computes them.  Option<T> is a sequence of length at most     *)
(* one: None is << >> and Some(x) is <<x>>.  Result<T, String> is a record *)
(* with the field ok.  The HashMap is the set of its (key, value) entries. *)
(***************************************************************************)
EXTENDS Integers, Sequences, FiniteSets, TLC

VARIABLES
    pc,      \* "start" before load, "loaded" after Ok, "failed" after Err
    attrs,   \* load's argument: the declaration's doc-comment lines and attributes
    kept,    \* load's local `lines`: the comment lines the filter kept
    ret,     \* what load returned: None before the call, Some(Result) after
    set,     \* the caller's AnnotationSet: None, or Some(set) after Ok
    loaded,  \* the AnnotationSet exactly as load returned it (history)
    calls,   \* the add_default calls made so far, <<name, value>> each (history)
    q        \* the last query made on the set and what it returned

vars == <<pc, attrs, kept, ret, set, loaded, calls, q>>

(***************************************************************************)
(* Bounds of the model.                                                    *)
(***************************************************************************)
MaxLines == 2       \* comment lines of a declaration drawn from DirectiveLines
MaxBody == 3        \* characters after the marker of an enumerated line
MaxAttrs == 2       \* attributes of a declaration drawn from AttrNodes
MaxDefaults == 2    \* add_default calls made on one set

(***************************************************************************)
(* Option and Result.                                                      *)
(***************************************************************************)
None == << >>
Some(x) == <<x>>
Ok(v) == [ok |-> TRUE, val |-> v]
Err(msg) == [ok |-> FALSE, err |-> msg]

(***************************************************************************)
(* Text primitives of the Rust standard library used by the code.          *)
(***************************************************************************)
WhiteSpace == {" ", "\t"}

RECURSIVE trim_start(_)
trim_start(s) ==
    IF s # << >> /\ Head(s) \in WhiteSpace THEN trim_start(Tail(s)) ELSE s

RECURSIVE trim_end(_)
trim_end(s) ==
    IF s # << >> /\ s[Len(s)] \in WhiteSpace
    THEN trim_end(SubSeq(s, 1, Len(s) - 1))
    ELSE s

trim(s) == trim_end(trim_start(s))

starts_with(s, p) == Len(s) >= Len(p) /\ SubSeq(s, 1, Len(p)) = p

\* str::split(char): one more segment than there are separators.
RECURSIVE split(_, _)
split(s, sep) ==
    IF \A i \in 1..Len(s) : s[i] # sep
    THEN <<s>>
    ELSE LET i == CHOOSE k \in 1..Len(s) :
                      s[k] = sep /\ \A j \in 1..(k - 1) : s[j] # sep
         IN  <<SubSeq(s, 1, i - 1)>> \o split(SubSeq(s, i + 1, Len(s)), sep)

MapTrim(segs) == [i \in 1..Len(segs) |-> trim(segs[i])]

\* str::parse::<bool>: exactly "true" or "false".
parse_bool(s) ==
    IF s = <<"t", "r", "u", "e">> THEN Some(TRUE)
    ELSE IF s = <<"f", "a", "l", "s", "e">> THEN Some(FALSE)
    ELSE None

(***************************************************************************)
(* AnnotationValue and AnnotationSet.                                      *)
(***************************************************************************)
List(x) == [tag |-> "List", list |-> x]
Atom(x) == [tag |-> "Atom", atom |-> x]
Bool(x) == [tag |-> "Bool", bool |-> x]

AnnotationSet(a, m, d) == [annotations |-> a, must_use |-> m, deprecated |-> d]

new == AnnotationSet({}, FALSE, None)

\* HashMap::insert: the entry of the key, if any, is replaced.
\* faulty variant: an existing entry is kept
InsertMutKeepFirst(m, k, v) ==
    IF \E e \in m : e.key = k THEN m ELSE m \cup {[key |-> k, value |-> v]}
Insert(m, k, v) == {e \in m : e.key # k} \cup {[key |-> k, value |-> v]}

\* HashMap::get
Get(m, k) ==
    IF \E e \in m : e.key = k
    THEN Some((CHOOSE e \in m : e.key = k).value)
    ELSE None

Keys(m) == {e.key : e \in m}

(***************************************************************************)
(* parse_list                                                              *)
(***************************************************************************)
\* faulty variant: the segments are not trimmed
parse_listMutNoTrim(list) ==
    IF Len(list) < 2 THEN None
    ELSE IF list[1] = "[" /\ list[Len(list)] = "]"
         THEN Some(split(SubSeq(list, 2, Len(list) - 1), ","))
         ELSE None
parse_list(list) ==
    IF Len(list) < 2 THEN None
    ELSE IF list[1] = "[" /\ list[Len(list)] = "]"
         THEN Some(MapTrim(split(SubSeq(list, 2, Len(list) - 1), ",")))
         ELSE None

(***************************************************************************)
(* The attribute list of a declaration, as syn presents it.  A node is     *)
(* what Attribute::parse_meta() yields: Meta::Path, Meta::NameValue,       *)
(* Meta::List, or an error.  A Meta::List node carries what                *)
(* parse_args_with(Punctuated<MetaNameValue, ,>::parse_terminated) yields  *)
(* for it: the name = literal pairs, or syn's error text.                  *)
(***************************************************************************)
Path(p) == [meta |-> "Path", path |-> p]
NameValue(p, text) == [meta |-> "NameValue", path |-> p,
                       lit |-> [kind |-> "Str", value |-> text]]
MetaList(p, args) == [meta |-> "List", path |-> p, args |-> args]
Unparsed(p) == [meta |-> "Err", path |-> p]
Arg(p, kind, text) == [path |-> p, lit |-> [kind |-> kind, value |-> text]]

\* SynAttributeHelpers (bindgen/utilities.rs)
get_comment_lines(a) == a.lines

has_attr_word(a, name) ==
    \E i \in 1..Len(a.nodes) :
        a.nodes[i].meta = "Path" /\ a.nodes[i].path = name

attr_name_value_lookup(a, name) ==
    LET hit(i) == /\ a.nodes[i].meta = "NameValue"
                  /\ a.nodes[i].path = name
                  /\ a.nodes[i].lit.kind = "Str"
    IN  IF \E i \in 1..Len(a.nodes) : hit(i)
        THEN LET i == CHOOSE k \in 1..Len(a.nodes) :
                          hit(k) /\ \A j \in 1..(k - 1) : ~hit(j)
             IN  Some(a.nodes[i].lit.value)
        ELSE None

(***************************************************************************)
(* load, lines 63-74: the comment scanner                                  *)
(***************************************************************************)
Marker == <<"c", "b", "i", "n", "d", "g", "e", "n", ":">>
MarkerLen == 9

\* faulty variant: leading white space is not trimmed
keep_lineMutNoTrim(raw) ==
    IF starts_with(raw, Marker) THEN Some(raw) ELSE None
\* the filter_map closure, lines 66-73: the trimmed line, or nothing
keep_line(raw) ==
    LET line == trim_start(raw)
    IN  IF ~starts_with(line, Marker) THEN None ELSE Some(line)

\* lines.iter().filter_map(..).collect()
RECURSIVE filter_map(_)
filter_map(raw_lines) ==
    IF raw_lines = << >> THEN << >>
    ELSE keep_line(Head(raw_lines)) \o filter_map(Tail(raw_lines))

(***************************************************************************)
(* load, lines 76-106: must_use and deprecated from the attributes         *)
(***************************************************************************)
\* attrs.iter().find(|attr| parse_meta() is Ok(Meta::List) with ident deprecated)
find_deprecated_list(a) ==
    LET hit(i) == a.nodes[i].meta = "List" /\ a.nodes[i].path = "deprecated"
    IN  IF \E i \in 1..Len(a.nodes) : hit(i)
        THEN Some(a.nodes[CHOOSE k \in 1..Len(a.nodes) :
                              hit(k) /\ \A j \in 1..(k - 1) : ~hit(j)])
        ELSE None

\* args.iter().find(|arg| arg.path.is_ident("note")).map(|arg| &arg.lit)
find_note(args) ==
    LET hit(i) == args[i].path = "note"
    IN  IF \E i \in 1..Len(args) : hit(i)
        THEN Some(args[CHOOSE k \in 1..Len(args) :
                           hit(k) /\ \A j \in 1..(k - 1) : ~hit(j)].lit)
        ELSE None

ErrArgs(e) == <<"Couldn't parse deprecated attribute: ", e>>
\* (the source writes the word note between backquotes)
ErrNoNote == <<"Couldn't parse deprecated attribute: ", "no 'note' field">>
ErrNotStr == <<"deprecated attribute must be a string">>

deprecated_from_list(attr) ==
    IF ~attr.args.ok THEN Err(ErrArgs(attr.args.err))
    ELSE LET lit == find_note(attr.args.val)
         IN  IF lit = None THEN Err(ErrNoNote)
             ELSE IF lit[1].kind = "Str" THEN Ok(Some(lit[1].value))
             ELSE Err(ErrNotStr)

\* faulty variant: the bare word is looked for before the name-value form
resolve_deprecatedMutWordFirst(a) ==
    IF has_attr_word(a, "deprecated") THEN Ok(Some(<< >>))
    ELSE IF attr_name_value_lookup(a, "deprecated") # None
    THEN Ok(Some(attr_name_value_lookup(a, "deprecated")[1]))
    ELSE IF find_deprecated_list(a) # None
    THEN deprecated_from_list(find_deprecated_list(a)[1])
    ELSE Ok(None)
resolve_deprecated(a) ==
    IF attr_name_value_lookup(a, "deprecated") # None
    THEN Ok(Some(attr_name_value_lookup(a, "deprecated")[1]))
    ELSE IF has_attr_word(a, "deprecated") THEN Ok(Some(<< >>))
    ELSE IF find_deprecated_list(a) # None
    THEN deprecated_from_list(find_deprecated_list(a)[1])
    ELSE Ok(None)

(***************************************************************************)
(* load, lines 111-152: the directive parser                               *)
(***************************************************************************)
ErrLine(line) == <<"Couldn't parse ">> \o line \o <<".">>

\* lines 136-151: list, then bool, then atom
parse_value(value) ==
    IF parse_list(value) # None THEN List(parse_list(value)[1])
    ELSE IF parse_bool(value) # None THEN Bool(parse_bool(value)[1])
    ELSE IF value = << >> THEN Atom(None)
    ELSE Atom(Some(value))

\* faulty variant: parts after the second are ignored
parse_directiveMutSkipExtra(line) ==
    LET parts == MapTrim(split(SubSeq(line, MarkerLen + 1, Len(line)), "="))
    IN  IF Len(parts) = 1 THEN Ok([name |-> parts[1], value |-> Bool(TRUE)])
        ELSE Ok([name |-> parts[1], value |-> parse_value(parts[2])])
\* the loop body, lines 112-151, for one kept line
parse_directive(line) ==
    LET annotation == SubSeq(line, MarkerLen + 1, Len(line))
        parts == MapTrim(split(annotation, "="))
    IN  IF Len(parts) > 2 THEN Err(ErrLine(line))
        ELSE IF Len(parts) = 1
        THEN Ok([name |-> parts[1], value |-> Bool(TRUE)])
        ELSE Ok([name |-> parts[1], value |-> parse_value(parts[2])])

\* the for loop, lines 111-152
RECURSIVE parse_lines(_, _)
parse_lines(lines, annotations) ==
    IF lines = << >> THEN Ok(annotations)
    ELSE LET d == parse_directive(Head(lines))
         IN  IF ~d.ok THEN Err(d.err)
             ELSE parse_lines(Tail(lines),
                              Insert(annotations, d.val.name, d.val.value))

\* faulty variant: the lines are parsed before the attributes are resolved
loadMutLinesFirst(a) ==
    LET parsed == parse_lines(filter_map(get_comment_lines(a)), {})
        dep == resolve_deprecated(a)
    IN  IF ~parsed.ok THEN Err(parsed.err)
        ELSE IF ~dep.ok THEN Err(dep.err)
        ELSE Ok(AnnotationSet(parsed.val, has_attr_word(a, "must_use"), dep.val))
load(a) ==
    LET lines == filter_map(get_comment_lines(a))
        must_use == has_attr_word(a, "must_use")
        dep == resolve_deprecated(a)
    IN  IF ~dep.ok THEN Err(dep.err)
        ELSE LET parsed == parse_lines(lines, {})
             IN  IF ~parsed.ok THEN Err(parsed.err)
                 ELSE Ok(AnnotationSet(parsed.val, must_use, dep.val))

(***************************************************************************)
(* The store's operations, lines 50-60 and 161-185                         *)
(***************************************************************************)
is_empty(s) == s.annotations = {} /\ ~s.must_use

\* faulty variant: the language is not looked at
must_useMutNoGate(s, config) == s.must_use
must_use(s, config) == s.must_use /\ config.language # "Cython"

deprecated(s, config) == s.deprecated # None /\ config.language # "Cython"

\* faulty variant: the value is inserted whether or not the name is present
add_defaultMutOverwrite(s, name, value) ==
    [s EXCEPT !.annotations = Insert(s.annotations, name, value)]
\* Entry::Vacant(e) => e.insert(value); an occupied entry is left alone
add_default(s, name, value) ==
    IF Get(s.annotations, name) = None
    THEN [s EXCEPT !.annotations = Insert(s.annotations, name, value)]
    ELSE s

\* faulty variant: an atom is handed out as a list
listMutCoerce(s, name) ==
    LET v == Get(s.annotations, name)
    IN  IF v = None THEN None
        ELSE IF v[1].tag = "List" THEN Some(v[1].list)
        ELSE IF v[1].tag = "Atom" THEN Some(v[1].atom)
        ELSE None
list(s, name) ==
    LET v == Get(s.annotations, name)
    IN  IF v # None /\ v[1].tag = "List" THEN Some(v[1].list) ELSE None

atom(s, name) ==
    LET v == Get(s.annotations, name)
    IN  IF v # None /\ v[1].tag = "Atom" THEN Some(v[1].atom) ELSE None

bool(s, name) ==
    LET v == Get(s.annotations, name)
    IN  IF v # None /\ v[1].tag = "Bool" THEN Some(v[1].bool) ELSE None

(***************************************************************************)
(* Inputs.                                                                 *)
(***************************************************************************)
SeqsUpTo(S, n) == UNION {[1..k -> S] : k \in 0..n}

Attrs(lines, nodes) == [lines |-> lines, nodes |-> nodes]

\* Comment lines written out: one for each shape of directive, and lines
\* the scanner must drop.
DirectiveLines == {
    Marker \o <<"a">>,
    Marker \o <<"a", "=", "t", "r", "u", "e">>,
    Marker \o <<"a", "=", "f", "a", "l", "s", "e">>,
    Marker \o <<"a", "=", "[", "x", ",", " ", "y", "]">>,
    Marker \o <<"a", "=", "[", "t", "r", "u", "e", "]">>,
    Marker \o <<"a", "=", "x">>,
    Marker \o <<"a", "=">>,
    Marker \o <<"b", " ", "=", " ", "x", "\t">>,
    Marker \o <<"b", "=", "[", "]">>,
    Marker \o <<"a", "=", "b", "=", "c">>,
    Marker \o <<"b", "=", "=">>,
    <<" ", "\t">> \o Marker \o <<"b">>,
    <<"x", " ">> \o Marker \o <<"a">>,
    <<"a", "=", "x">>,
    <<"c", "b", "i", "n", "d", "g", "e", "n", "a">>,
    Marker,
    Marker \o <<" ", "=", "x">> }

\* Every line of at most MaxBody characters over BodyChars, with and without
\* the marker, with and without leading white space.
BodyChars == {"a", "=", " ", "[", "]", ","}

EnumeratedLines ==
    {pre \o mk \o body : pre \in {<< >>, <<" ">>}, mk \in {<< >>, Marker},
                         body \in SeqsUpTo(BodyChars, MaxBody)}

SynErrors == {"expected identifier", "expected literal"}

AttrNodes ==
    { Path("must_use"), Path("deprecated"),
      NameValue("deprecated", <<"r">>), NameValue("deprecated", << >>),
      NameValue("link_name", <<"r">>),
      MetaList("deprecated", Ok(<<Arg("note", "Str", <<"n">>)>>)),
      MetaList("deprecated", Ok(<<Arg("since", "Str", <<"1">>),
                                  Arg("note", "Str", <<"n">>)>>)),
      MetaList("deprecated", Ok(<<Arg("since", "Str", <<"1">>)>>)),
      MetaList("deprecated", Ok(<< >>)),
      MetaList("deprecated", Ok(<<Arg("note", "Int", <<"5">>)>>)),
      MetaList("deprecated", Ok(<<Arg("note", "Int", <<"5">>),
                                  Arg("note", "Str", <<"n">>)>>)),
      MetaList("repr", Err("expected identifier")),
      Unparsed("deprecated") }
    \cup {MetaList("deprecated", Err(e)) : e \in SynErrors}

\* Inputs of the loading specification: many comment lines with few
\* attribute lists, and many attribute lists with few comment lines.
FewNodes == {<< >>, <<Path("must_use")>>}
FewLines ==
    { << >>,
      <<Marker \o <<"a", "=", "x">>>>,
      <<Marker \o <<"a", "=", "b", "=", "c">>>>,
      <<Marker \o <<"a">>, <<"x">>, Marker \o <<"b", "=", "=">>>> }

LoadInputs ==
    {Attrs(ls, ns) : ls \in SeqsUpTo(DirectiveLines, MaxLines), ns \in FewNodes}
    \cup {Attrs(<<l>>, << >>) : l \in EnumeratedLines}
    \cup {Attrs(ls, ns) : ls \in FewLines, ns \in SeqsUpTo(AttrNodes, MaxAttrs)}

\* Inputs of the life-cycle specification.
LifeLines ==
    { << >>,
      <<Marker \o <<"a", "=", "[", "x", ",", " ", "y", "]">>, Marker \o <<"b">>>>,
      <<Marker \o <<"a", "=", "x">>, <<"n", "o">>>>,
      <<Marker \o <<"b", "=", "f", "a", "l", "s", "e">>, Marker \o <<"b", "=">>>>,
      <<Marker \o <<"a", "=", "b", "=", "c">>>> }
LifeNodes ==
    { << >>,
      <<Path("must_use")>>,
      <<Path("deprecated"), Path("must_use")>>,
      <<NameValue("deprecated", <<"r">>)>>,
      <<MetaList("deprecated", Ok(<< >>))>> }
LifeInputs == {Attrs(ls, ns) : ls \in LifeLines, ns \in LifeNodes}

Names == {<<"a">>, <<"b">>, <<"z">>}
DefaultValues == {Bool(FALSE), List(<<<<"d">>>>)}
Languages == {"C", "Cxx", "Cython"}
Config(lang) == [language |-> lang]

(***************************************************************************)
(* Actions.                                                                *)
(***************************************************************************)
InitWith(inputs) ==
    /\ pc = "start"
    /\ attrs \in inputs
    /\ kept = << >>
    /\ ret = None
    /\ set = None
    /\ loaded = None
    /\ calls = << >>
    /\ q = None

\* AnnotationSet::load(attrs)
Load ==
    /\ pc = "start"
    /\ LET r == load(attrs)
       IN  /\ ret' = Some(r)
           /\ pc' = IF r.ok THEN "loaded" ELSE "failed"
           /\ set' = IF r.ok THEN Some(r.val) ELSE None
           /\ loaded' = IF r.ok THEN Some(r.val) ELSE None
    /\ kept' = filter_map(get_comment_lines(attrs))
    /\ UNCHANGED <<attrs, calls, q>>

\* set.add_default(name, value)
AddDefault ==
    /\ pc = "loaded"
    /\ Len(calls) < MaxDefaults
    /\ \E name \in Names, value \in DefaultValues :
          /\ set' = Some(add_default(set[1], name, value))
          /\ calls' = Append(calls, <<name, value>>)
    /\ q' = None
    /\ UNCHANGED <<pc, attrs, kept, ret, loaded>>

Query(op, arg, out) ==
    /\ pc = "loaded"
    /\ q' = Some([op |-> op, arg |-> arg, out |-> out])
    /\ UNCHANGED <<pc, attrs, kept, ret, set, loaded, calls>>

MustUse == \E lang \in Languages :
    Query("must_use", lang, must_use(set[1], Config(lang)))
Deprecated == \E lang \in Languages :
    Query("deprecated", lang, deprecated(set[1], Config(lang)))
ListOf == \E name \in Names : Query("list", name, list(set[1], name))
AtomOf == \E name \in Names : Query("atom", name, atom(set[1], name))
BoolOf == \E name \in Names : Query("bool", name, bool(set[1], name))

Init == InitWith(LifeInputs)
Next == Load \/ AddDefault \/ MustUse \/ Deprecated \/ ListOf \/ AtomOf \/ BoolOf
Spec == Init /\ [][Next]_vars

\* load alone, over the wide inputs
InitLoad == InitWith(LoadInputs)
NextLoad == Load
SpecLoad == InitLoad /\ [][NextLoad]_vars

(***************************************************************************)
(* The text notions the properties are stated with, defined by position    *)
(* rather than by the recursions above.                                    *)
(***************************************************************************)
Positions(s, c) == {i \in 1..Len(s) : s[i] = c}
Count(s, c) == Cardinality(Positions(s, c))
Solid(s) == {i \in 1..Len(s) : s[i] \notin WhiteSpace}
MinOf(S) == CHOOSE x \in S : \A y \in S : x <= y
MaxOf(S) == CHOOSE x \in S : \A y \in S : y <= x

\* s without its leading white space
WithoutLead(s) == IF Solid(s) = {} THEN << >> ELSE SubSeq(s, MinOf(Solid(s)), Len(s))
\* s without its leading and trailing white space
Trimmed(s) ==
    IF Solid(s) = {} THEN << >> ELSE SubSeq(s, MinOf(Solid(s)), MaxOf(Solid(s)))

\* the segments of s between the occurrences of c, each trimmed
Segments(s, c) ==
    LET P == Positions(s, c)
        cutAt(k) == IF k = 0 THEN 0
                    ELSE IF k = Cardinality(P) + 1 THEN Len(s) + 1
                    ELSE CHOOSE x \in P : Cardinality({y \in P : y < x}) = k - 1
    IN  [k \in 1..(Cardinality(P) + 1) |->
            Trimmed(SubSeq(s, cutAt(k - 1) + 1, cutAt(k) - 1))]

Contains(hay, needle) ==
    \E i \in 0..(Len(hay) - Len(needle)) :
        SubSeq(hay, i + 1, i + Len(needle)) = needle

\* a raw comment line is a directive line: the marker follows its leading white space
IsDirectiveLine(raw) ==
    /\ Len(WithoutLead(raw)) >= Len(Marker)
    /\ \A i \in 1..Len(Marker) : WithoutLead(raw)[i] = Marker[i]

\* the directive lines of the input, in source order, leading white space removed
DirectiveLinesOf(a) ==
    LET idx == {i \in 1..Len(a.lines) : IsDirectiveLine(a.lines[i])}
        nth(k) == CHOOSE x \in idx : Cardinality({y \in idx : y < x}) = k - 1
    IN  [k \in 1..Cardinality(idx) |-> WithoutLead(a.lines[nth(k)])]

\* a directive line with its marker stripped
Stripped(line) == SubSeq(line, Len(Marker) + 1, Len(line))
Malformed(line) == Count(Stripped(line), "=") >= 2

\* the value the inference rule gives a trimmed right-hand text
InferredValue(text) ==
    IF Len(text) >= 2 /\ text[1] = "[" /\ text[Len(text)] = "]"
    THEN List(Segments(SubSeq(text, 2, Len(text) - 1), ","))
    ELSE IF text = <<"t", "r", "u", "e">> THEN Bool(TRUE)
    ELSE IF text = <<"f", "a", "l", "s", "e">> THEN Bool(FALSE)
    ELSE IF text = << >> THEN Atom(None)
    ELSE Atom(Some(text))

\* the (name, value) pair of a directive line with at most one separator
DirectiveOf(line) ==
    LET d == Stripped(line)
    IN  IF Count(d, "=") = 0
        THEN [name |-> Trimmed(d), value |-> Bool(TRUE)]
        ELSE LET p == MinOf(Positions(d, "="))
             IN  [name |-> Trimmed(SubSeq(d, 1, p - 1)),
                  value |-> InferredValue(Trimmed(SubSeq(d, p + 1, Len(d))))]

IsLineFault(msg) == Head(msg) = "Couldn't parse "
IsDeprecationFault(msg) ==
    Head(msg) \in {"Couldn't parse deprecated attribute: ",
                   "deprecated attribute must be a string"}

(***************************************************************************)
(* C1.  After load, through every sequence of add_default calls: a name    *)
(* load stored keeps the value load gave it; a name load did not store     *)
(* holds the value of the first add_default call made for it, or nothing   *)
(* when no call was made for it; must_use and deprecated stay as loaded.   *)
(***************************************************************************)
C1_AddDefaultFirstWins ==
    pc = "loaded" =>
        LET s == set[1]
            l == loaded[1]
            callsFor(n) == {i \in 1..Len(calls) : calls[i][1] = n}
        IN  /\ s.must_use = l.must_use
            /\ s.deprecated = l.deprecated
            /\ \A n \in Keys(l.annotations) \cup Keys(s.annotations) \cup Names :
                  LET now == {e.value : e \in {x \in s.annotations : x.key = n}}
                      was == {e.value : e \in {x \in l.annotations : x.key = n}}
                  IN  IF was # {} THEN now = was
                      ELSE IF callsFor(n) # {}
                      THEN now = {calls[MinOf(callsFor(n))][2]}
                      ELSE now = {}

\* two calls with different values were made for a name load did not store,
\* on a set that holds names set by explicit directives
C1_Witness ==
    /\ pc = "loaded"
    /\ Len(calls) = 2
    /\ calls[1][1] = calls[2][1]
    /\ calls[1][2] # calls[2][2]
    /\ calls[1][1] \notin Keys(loaded[1].annotations)
    /\ loaded[1].annotations # {}

(***************************************************************************)
(* C2.  When the attributes resolve and some directive line has two or     *)
(* more separators, load returns a fault whose message contains the first  *)
(* such line in full, and delivers no AnnotationSet.                       *)
(***************************************************************************)
C2_MalformedDirectiveFault ==
    LET ls == DirectiveLinesOf(attrs)
        bad == {i \in 1..Len(ls) : Malformed(ls[i])}
    IN  (pc # "start" /\ resolve_deprecated(attrs).ok /\ bad # {}) =>
            /\ pc = "failed"
            /\ ~ret[1].ok
            /\ IsLineFault(ret[1].err)
            /\ Contains(ret[1].err, ls[MinOf(bad)])
            /\ SubSeq(ret[1].err, 2, Len(ret[1].err) - 1) = ls[MinOf(bad)]
            /\ set = None

\* a well-formed directive line came before the malformed one
C2_Witness ==
    /\ pc = "failed"
    /\ Len(kept) = 2
    /\ ~Malformed(kept[1])
    /\ Malformed(kept[2])
    /\ set = None

(***************************************************************************)
(* C3.  A declaration with one directive line: without a separator the     *)
(* name maps to Bool(true); with one separator the name maps to the value  *)
(* inferred from the trimmed right-hand text, list before bool before      *)
(* atom.                                                                   *)
(***************************************************************************)
C3_ValueInference ==
    LET ls == DirectiveLinesOf(attrs)
    IN  (pc # "start" /\ resolve_deprecated(attrs).ok
            /\ Len(ls) = 1 /\ ~Malformed(ls[1])) =>
            /\ pc = "loaded"
            /\ set[1].annotations =
                  {[key |-> DirectiveOf(ls[1]).name, value |-> DirectiveOf(ls[1]).value]}

\* the text [true] was stored as a list of one item
C3_Witness ==
    /\ pc = "loaded"
    /\ Len(kept) = 1
    /\ set[1].annotations =
          {[key |-> <<"a">>, value |-> List(<<<<"t", "r", "u", "e">>>>)]}

(***************************************************************************)
(* C4.  After a successful load the mapping holds, for each name carried   *)
(* by a directive line, exactly one entry, and its value is the one        *)
(* parsed from the last line carrying that name.                           *)
(***************************************************************************)
C4_LastDirectiveWins ==
    LET ls == DirectiveLinesOf(attrs)
        m == set[1].annotations
    IN  pc = "loaded" =>
            /\ \A i \in 1..Len(ls) : DirectiveOf(ls[i]).name \in Keys(m)
            /\ \A e \in m :
                  \E i \in 1..Len(ls) :
                      /\ DirectiveOf(ls[i]).name = e.key
                      /\ DirectiveOf(ls[i]).value = e.value
                      /\ \A j \in (i + 1)..Len(ls) : DirectiveOf(ls[j]).name # e.key
            /\ Cardinality(m) = Cardinality(Keys(m))

\* two lines carried the same name with values of different variants
C4_Witness ==
    /\ pc = "loaded"
    /\ Len(kept) = 2
    /\ DirectiveOf(kept[1]).name = DirectiveOf(kept[2]).name
    /\ DirectiveOf(kept[1]).value.tag # DirectiveOf(kept[2]).value.tag
    /\ Cardinality(set[1].annotations) = 1

(***************************************************************************)
(* C5.  The deprecated note is taken from the first of: a name-value       *)
(* deprecated attribute (its text), a bare deprecated word (empty text),   *)
(* the first structured deprecated attribute when it has a literal-text    *)
(* note field (that text); with none of these the note is absent.  In the  *)
(* first two cases no deprecation fault is returned, whatever structured   *)
(* attribute is also present.                                              *)
(***************************************************************************)
C5_DeprecatedPrecedence ==
    LET ns == attrs.nodes
        nv == {i \in 1..Len(ns) : ns[i].meta = "NameValue" /\ ns[i].path = "deprecated"}
        word == {i \in 1..Len(ns) : ns[i].meta = "Path" /\ ns[i].path = "deprecated"}
        form == {i \in 1..Len(ns) : ns[i].meta = "List" /\ ns[i].path = "deprecated"}
        notes(i) == {k \in 1..Len(ns[i].args.val) : ns[i].args.val[k].path = "note"}
        goodForm(i) == /\ ns[i].args.ok
                       /\ notes(i) # {}
                       /\ ns[i].args.val[MinOf(notes(i))].lit.kind = "Str"
        noteOf(i) == ns[i].args.val[MinOf(notes(i))].lit.value
        linesFine == \A i \in 1..Len(DirectiveLinesOf(attrs)) :
                        ~Malformed(DirectiveLinesOf(attrs)[i])
        yields(note) == /\ linesFine => (pc = "loaded" /\ set[1].deprecated = note)
                        /\ ~linesFine => (pc = "failed" /\ IsLineFault(ret[1].err)
                                             /\ ~IsDeprecationFault(ret[1].err))
    IN  pc # "start" =>
            IF nv # {} THEN yields(Some(ns[MinOf(nv)].lit.value))
            ELSE IF word # {} THEN yields(Some(<< >>))
            ELSE IF form # {}
            THEN goodForm(MinOf(form)) => yields(Some(noteOf(MinOf(form))))
            ELSE yields(None)

\* a name-value form gave the note although a bare word and a structured
\* form without a note field were on the declaration too
C5_Witness ==
    /\ pc = "loaded"
    /\ set[1].deprecated = Some(<<"r">>)
    /\ \E i, j \in 1..Len(attrs.nodes) :
          /\ attrs.nodes[i] \in {Path("deprecated"), MetaList("deprecated", Ok(<< >>))}
          /\ attrs.nodes[j] = NameValue("deprecated", <<"r">>)
          /\ i < j

(***************************************************************************)
(* C6.  With no name-value and no bare deprecated attribute, when the      *)
(* first structured deprecated attribute has arguments that do not parse,  *)
(* or no note field, or a note that is not literal text, load returns a    *)
(* fault and no AnnotationSet, whatever the comment lines hold; the        *)
(* message tells the three cases apart.                                    *)
(***************************************************************************)
C6_MalformedDeprecationFault ==
    LET ns == attrs.nodes
        nv == {i \in 1..Len(ns) : ns[i].meta = "NameValue" /\ ns[i].path = "deprecated"}
        word == {i \in 1..Len(ns) : ns[i].meta = "Path" /\ ns[i].path = "deprecated"}
        form == {i \in 1..Len(ns) : ns[i].meta = "List" /\ ns[i].path = "deprecated"}
        f == ns[MinOf(form)]
        notes == {k \in 1..Len(f.args.val) : f.args.val[k].path = "note"}
        unparsed == ~f.args.ok
        noNote == f.args.ok /\ notes = {}
        notText == f.args.ok /\ notes # {}
                      /\ f.args.val[MinOf(notes)].lit.kind # "Str"
        argsMsg == {<<"Couldn't parse deprecated attribute: ", e>> : e \in SynErrors}
        noNoteMsg == <<"Couldn't parse deprecated attribute: ", "no 'note' field">>
        notTextMsg == <<"deprecated attribute must be a string">>
    IN  (pc # "start" /\ nv = {} /\ word = {} /\ form # {}
            /\ (unparsed \/ noNote \/ notText)) =>
            /\ pc = "failed"
            /\ ~ret[1].ok
            /\ set = None
            /\ IsDeprecationFault(ret[1].err)
            /\ (ret[1].err \in argsMsg) <=> unparsed
            /\ (ret[1].err = noNoteMsg) <=> noNote
            /\ (ret[1].err = notTextMsg) <=> notText

\* the deprecation fault was returned although a directive line was malformed
C6_Witness ==
    /\ pc = "failed"
    /\ ret[1].err = <<"deprecated attribute must be a string">>
    /\ \E i \in 1..Len(kept) : Malformed(kept[i])

(***************************************************************************)
(* C7.  A must_use or deprecated query leaves the set as it is and         *)
(* answers false for Cython; for any other language must_use answers the   *)
(* stored flag and deprecated answers whether a note is stored.            *)
(***************************************************************************)
C7_FlagQueriesPure ==
    [][(q' # None /\ q' # q /\ q'[1].op \in {"must_use", "deprecated"}) =>
          /\ set' = set
          /\ loaded' = loaded
          /\ q'[1].arg = "Cython" => q'[1].out = FALSE
          /\ (q'[1].arg # "Cython" /\ q'[1].op = "must_use") =>
                q'[1].out = set[1].must_use
          /\ (q'[1].arg # "Cython" /\ q'[1].op = "deprecated") =>
                q'[1].out = (set[1].deprecated # None)]_vars

\* must_use was asked for Cython of a set whose flag is true, and deprecated
\* notes are present but empty
C7_Witness ==
    /\ q # None
    /\ q[1].op = "must_use"
    /\ q[1].arg = "Cython"
    /\ q[1].out = FALSE
    /\ set[1].must_use
    /\ set[1].deprecated = Some(<< >>)

(***************************************************************************)
(* C8.  In every state of a set and for every name: list, atom and bool    *)
(* each return the stored payload exactly when the name is stored with     *)
(* their own variant; at most one of them is present; all are absent       *)
(* exactly when the name is not stored.                                    *)
(***************************************************************************)
C8_TagCheckedLookups ==
    set # None =>
        LET s == set[1]
            m == s.annotations
        IN  /\ \A n \in Keys(m) \cup Names :
                  LET stored == {e.value : e \in {x \in m : x.key = n}}
                      present == {r \in {list(s, n), atom(s, n), bool(s, n)} : r # None}
                  IN  /\ list(s, n) # None <=> \E v \in stored : v.tag = "List"
                      /\ atom(s, n) # None <=> \E v \in stored : v.tag = "Atom"
                      /\ bool(s, n) # None <=> \E v \in stored : v.tag = "Bool"
                      /\ list(s, n) # None => List(list(s, n)[1]) \in stored
                      /\ atom(s, n) # None => Atom(atom(s, n)[1]) \in stored
                      /\ bool(s, n) # None => Bool(bool(s, n)[1]) \in stored
                      /\ Cardinality({t \in {"l", "a", "b"} :
                            \/ t = "l" /\ list(s, n) # None
                            \/ t = "a" /\ atom(s, n) # None
                            \/ t = "b" /\ bool(s, n) # None}) <= 1
                      /\ present = {} <=> stored = {}
            /\ q # None /\ q[1].op = "list" => q[1].out = list(s, q[1].arg)
            /\ q # None /\ q[1].op = "atom" => q[1].out = atom(s, q[1].arg)
            /\ q # None /\ q[1].op = "bool" => q[1].out = bool(s, q[1].arg)

\* list was asked of a name stored as an atom without text, and answered absent
C8_Witness ==
    /\ q # None
    /\ q[1].op = "list"
    /\ q[1].out = None
    /\ Atom(None) \in {e.value : e \in {x \in set[1].annotations : x.key = q[1].arg}}
    /\ atom(set[1], q[1].arg) = Some(None)

(***************************************************************************)
(* C9.  Every key of the mapping load returns is non-empty text.           *)
(***************************************************************************)
C9_KeysNonEmpty ==
    pc = "loaded" => \A e \in set[1].annotations : e.key # << >>

(***************************************************************************)
(* C10.  The lines load parses are exactly the directive lines of the      *)
(* input, in source order; after a successful load the names stored are    *)
(* the names of those lines, so there are no more entries than directive   *)
(* lines; and a fault for a line is returned only for a directive line.    *)
(***************************************************************************)
C10_ScannerKeepsDirectiveLines ==
    LET ls == DirectiveLinesOf(attrs)
    IN  pc # "start" =>
            /\ kept = ls
            /\ pc = "loaded" =>
                  /\ Keys(set[1].annotations) = {DirectiveOf(ls[i]).name : i \in 1..Len(ls)}
                  /\ Cardinality(set[1].annotations) <= Len(ls)
            /\ (pc = "failed" /\ resolve_deprecated(attrs).ok) =>
                  \E i \in 1..Len(ls) : Malformed(ls[i]) /\ Contains(ret[1].err, ls[i])

\* a line with white space before the marker was kept and a line with the
\* marker further in was dropped
C10_Witness ==
    /\ pc = "loaded"
    /\ Len(attrs.lines) = 2
    /\ Head(attrs.lines[1]) \in WhiteSpace
    /\ Head(attrs.lines[2]) \notin WhiteSpace
    /\ ~starts_with(attrs.lines[2], Marker)
    /\ Contains(attrs.lines[2], Marker)
    /\ Len(kept) = 1
    /\ Cardinality(set[1].annotations) = 1

====
